---- MODULE Spec2Model ----
(***************************************************************************)
(* Model of the binlog change tracker (src/pkg/repl/client.go) and of the  *)
(* parallel chunk copier (src/pkg/row/copier.go).                          *)
(*                                                                         *)
(* T is the source table, Tp the shadow table T'.  A table maps a primary  *)
(* key to the content of its row, 0 standing for "no such row".  The       *)
(* content written by the n-th write statement is n, so that a stale row   *)
(* in T' is distinguishable from the current row in T.                     *)
(***************************************************************************)
EXTENDS Integers, Sequences, FiniteSets, TLC

\* ---------------------------------------------------------------- bounds
MaxKey == 2
MaxWrites == 2
MaxConcurrency == 2
MaxWaitWrites == 1
MaxLogs == 3
MaxElapsed == 2

\* Keys per flush transaction.  The code's literal is 10000 (client.go:300);
\* it is scaled down so that a changeset of MaxKey keys needs an
\* intermediate batch as well as the final one.
FlushBatchSize == 2

\* Logical size of a chunk handed out by the chunker.
ChunkSize == 1

Keys == 1..MaxKey
Actions == {"insert", "update", "delete"}
Nil == [Name |-> 0, Pos |-> 0]

VARIABLES
    \* --- the database server
    T,                  \* source table
    Tp,                 \* shadow table T'
    binlog,             \* row events written by the server, not yet consumed
    nWrites,            \* number of write statements so far (= master offset)
    \* --- repl.Client
    binlogChangeset,    \* map[string]bool, bool is deleted
    binlogChangesetDelta,
    binlogPosSynced,
    binlogPosInMemory,
    lastLogFileName,
    disableKeyAboveWatermarkOptimization,
    rowIdx,             \* OnRow: rows of the head event already handled
    \* --- Client.Flush, one call at a time
    flushPc,            \* "idle" | "swapped" | "loop" | "setpos"
    setToFlush,
    posOfFlush,
    flushLeft,          \* keys of setToFlush the range loop has not reached
    flushErr,           \* err of the running call
    \* --- table.Chunker
    chunkerAttached,    \* c.table.Chunker != nil
    chunkPtr,           \* chunks handed out by Next
    chunkState,         \* per chunk, where its copy stands (see CopyChunk)
    affected,           \* per chunk, affectedRows of its bulk insert
    \* --- row.Copier counters
    CopyRowsCount,
    CopyRowsLogicalCount,
    CopyChunksCount,
    \* --- history, read by the properties only
    flushResult,        \* what the last finished Flush returned
    posSyncedAtEntry,   \* binlogPosSynced when the last Flush was entered
    unapplied,          \* buffered <<key, pos>> no committed batch applied
    capturedEv,         \* the part of unapplied the running Flush captured
    window,             \* per key, the last action buffered since the last swap
    explicitlyEnabled,  \* SetKeyAboveWatermarkOptimization(true) was called
    lastRowOutcome,     \* what OnRow did with the last row it handled
    \* --- a second run of the tracker, with the optimization switched off
    changesetB,
    TpB,
    setToFlushB,
    flushLeftB,
    flushPcB,           \* "idle" | "loop"
    dbDown,             \* the transactions of the running Flush fail
    \* --- Copier.Run
    runPc,              \* "start" | "open" | "loop" | "go" | "wait" | "returned"
    runErr,             \* what Run returned: 0 is nil
    mutexHeld,          \* the Copier's sync.Mutex
    isOpen,
    concurrency,        \* config.Concurrency
    isInvalid,
    ctxCancelled,       \* ctx.Err() != nil
    grpCancelled,       \* errGrpCtx.Err() != nil
    gErr,               \* the errgroup's first error: 0 is nil
    nSleeping,          \* workers spawned that have not called Next yet
    nNextFailed,        \* workers whose Next returned an error
    nNextInvalid,       \* ... and that have called setInvalid
    firstReturned,      \* history: the first error a worker returned
    spawnedAfterInvalid, \* history: workers spawned since isInvalid was set
    \* --- Client.FlushUntilTrivial and Client.BlockWait
    futPc,              \* "idle" | "flush" | "flushing" | "masterpos" | "noise" |
                        \* "poll" | "len" | "returned"
    futErr,             \* FlushUntilTrivial returned an error
    targetPos,          \* BlockWait's local
    canalPos,           \* c.canal.SyncedPosition()
    futCancelled,       \* the ctx of FlushUntilTrivial is cancelled
    masterAtEntry,      \* history: the master position when the call began
    \* --- Client.Run
    startPc,            \* "new" | "position" | "logs" | "scan" | "spawn" | "returned"
    startErr,           \* "nil" | "canal" | "position" | "impossible"
    consumerSpawned,    \* go c.startCanal() has been executed
    serverLogs,         \* the log files SHOW MASTER LOGS lists
    logsReadable,       \* SHOW MASTER LOGS can be read
    scanIdx,            \* rows of the log list binlogPositionIsImpossible has read
    resumed,            \* history: Run was entered with a prior synced position
    \* --- Copier.GetETA
    keyIsAutoInc,       \* c.table.KeyIsAutoInc
    tableMaxValue,      \* c.table.MaxValue()
    maxValueParses,     \* strconv.ParseUint accepts it
    estimatedRows,      \* c.table.EstimatedRows
    rowsPerSecond,
    elapsed,            \* time.Since(c.startTime), in units of 30 s
    etaOut,             \* what the last call of GetETA returned
    etaFresh,           \* history: nothing GetETA reads has changed since
    \* --- the statements of Flush
    stmts,              \* history: per key, the statements of the running Flush's
                        \* committed transactions that name it
    batchMax,           \* history: the most keys one of these transactions carried
    \* --- the mutex of the Client
    mu,                 \* who holds c.Mutex across steps: "none" | "flush"
    txOpen,             \* dbconn.RetryableTransaction of doFlush is executing
    \* --- a second call of Flush, on another goroutine: its position and locals
    flushPc2,
    setToFlush2,
    posOfFlush2,
    flushLeft2,
    flushErr2

dbVars == <<T, Tp, binlog, nWrites>>
clientVars == <<binlogChangeset, binlogChangesetDelta, binlogPosSynced,
                binlogPosInMemory, lastLogFileName,
                disableKeyAboveWatermarkOptimization, rowIdx>>
flushVars == <<flushPc, setToFlush, posOfFlush, flushLeft, flushErr>>
chunkerVars == <<chunkerAttached, chunkPtr, chunkState, affected>>
counterVars == <<CopyRowsCount, CopyRowsLogicalCount, CopyChunksCount>>
histVars == <<flushResult, posSyncedAtEntry, unapplied, capturedEv, window,
              explicitlyEnabled, lastRowOutcome>>
equivVars == <<changesetB, TpB, setToFlushB, flushLeftB, flushPcB, dbDown>>
runVars == <<runPc, runErr, mutexHeld, isOpen, concurrency, isInvalid, ctxCancelled, grpCancelled,
             gErr, nSleeping, nNextFailed, nNextInvalid, firstReturned,
             spawnedAfterInvalid>>
waitVars == <<futPc, futErr, targetPos, canalPos, futCancelled, masterAtEntry>>
startVars == <<startPc, startErr, consumerSpawned, serverLogs, logsReadable, scanIdx,
               resumed>>
etaVars == <<keyIsAutoInc, tableMaxValue, maxValueParses, estimatedRows, rowsPerSecond,
             elapsed, etaOut, etaFresh>>
issueVars == <<stmts, batchMax>>
lockVars == <<mu, txOpen>>
flush2Vars == <<flushPc2, setToFlush2, posOfFlush2, flushLeft2, flushErr2>>
apiVars == <<waitVars, startVars, etaVars, issueVars, lockVars, flush2Vars>>
vars == <<dbVars, clientVars, flushVars, chunkerVars, counterVars, histVars,
          equivVars, runVars, apiVars>>

\* ------------------------------------------------------------- helpers
EmptyMap == [k \in {} |-> FALSE]
Len0(m) == Cardinality(DOMAIN m)

\* mysql.Position.Compare(a, b) <= 0
PosLE(a, b) == a.Name < b.Name \/ (a.Name = b.Name /\ a.Pos <= b.Pos)

\* utils.HashKey / utils.UnhashKey: the fingerprint of a one-column
\* primary-key tuple, and the value list it stands for.
HashKey(key) == key[1]
UnhashKey(h) == <<h>>

\* ----------------------------------------------------------- chunker
NumChunks == (MaxKey + ChunkSize - 1) \div ChunkSize
ChunkIds == 1..NumChunks
ChunkKeys(c) == {k \in Keys : (c - 1) * ChunkSize < k /\ k <= c * ChunkSize}
IsRead == chunkPtr = NumChunks
highWatermark == IF chunkPtr * ChunkSize > MaxKey THEN MaxKey ELSE chunkPtr * ChunkSize

\* The low watermark: the upper end of the last chunk such that Feedback
\* was called for it and for every chunk below it.
lowWatermarkChunk ==
    CHOOSE w \in 0..NumChunks :
        /\ \A c \in 1..w : chunkState[c] = "copied"
        /\ w < NumChunks => chunkState[w + 1] # "copied"
lowWatermark ==
    IF lowWatermarkChunk * ChunkSize > MaxKey THEN MaxKey ELSE lowWatermarkChunk * ChunkSize
KeyAboveHighWatermark(k) == k > highWatermark

\* ------------------------------------------------- the database server
\* The rows one write statement touches: one key, or two in key order.
RowSeqs == {<<k>> : k \in Keys} \cup {s \in Keys \X Keys : s[1] < s[2]}

Range(s) == {s[i] : i \in 1..Len(s)}

\* An application writes to T; the server appends the row event to its log.
Write ==
    /\ nWrites < MaxWrites
    /\ \E a \in Actions, rows \in RowSeqs :
        /\ IF a = "insert" THEN \A k \in Range(rows) : T[k] = 0
                           ELSE \A k \in Range(rows) : T[k] # 0
        /\ T' = [k \in Keys |-> IF k \in Range(rows)
                                  THEN (IF a = "delete" THEN 0 ELSE nWrites + 1)
                                  ELSE T[k]]
        /\ binlog' = Append(binlog, [Action |-> a, Rows |-> rows, LogPos |-> nWrites + 1])
    /\ nWrites' = nWrites + 1
    /\ UNCHANGED <<Tp, clientVars, flushVars, chunkerVars, counterVars, histVars>>

\* dbconn.RetryableTransaction for the flush statements: the table T' after
\* DELETE ... WHERE pk IN (deleteKeys) and REPLACE ... SELECT FROM T WHERE
\* pk IN (replaceKeys) commit.  An empty list issues no statement.
FlushTx(tp, deleteKeys, replaceKeys) ==
    [k \in Keys |->
        IF \E h \in deleteKeys : UnhashKey(h)[1] = k THEN 0
        ELSE IF \E h \in replaceKeys : UnhashKey(h)[1] = k THEN T[k]
        ELSE tp[k]]

\* A bulk insert that overwrites the rows T' holds already.
ChunkAffectedOverwrites(c) == {k \in ChunkKeys(c) : T[k] # 0}

\* The rows INSERT IGNORE ... SELECT FROM T WHERE <chunk> writes into T'.
ChunkAffected(c) == {k \in ChunkKeys(c) : T[k] # 0 /\ Tp[k] = 0}

\* ------------------------------------------------------- repl.Client
\* A tracker that forgets the switch of the optimization.
KeyCanBeIgnoredWhateverTheFlag(key) ==
    /\ chunkerAttached
    /\ KeyAboveHighWatermark(key[1])

\* The condition under which OnRow skips a row (the key can be ignored).
KeyCanBeIgnored(key) ==
    /\ chunkerAttached
    /\ ~disableKeyAboveWatermarkOptimization
    /\ KeyAboveHighWatermark(key[1])

\* A buffer that keeps the flag of the first event of a key.
keyHasChangedKeepsFirst(m, key, deleted) ==
    [h \in DOMAIN m \cup {HashKey(key)} |->
        IF h \in DOMAIN m THEN m[h] ELSE deleted]

\* c.binlogChangeset[utils.HashKey(key)] = deleted
keyHasChanged(m, key, deleted) ==
    [h \in DOMAIN m \cup {HashKey(key)} |-> IF h = HashKey(key) THEN deleted ELSE m[h]]

\* One pass of OnRow's loop over e.Rows, for the event the subscription is
\* delivering (the head of the log).
OnRowRow ==
    /\ binlog # <<>>
    /\ rowIdx < Len(Head(binlog).Rows)
    /\ LET e == Head(binlog)
           key == <<e.Rows[rowIdx + 1]>>
       IN  IF KeyCanBeIgnored(key)
           THEN /\ lastRowOutcome' = "discarded"
                /\ UNCHANGED <<binlogChangeset, unapplied, window>>
           ELSE /\ binlogChangeset' = keyHasChanged(binlogChangeset, key, e.Action = "delete")
                /\ lastRowOutcome' = "buffered"
                /\ unapplied' = unapplied \cup
                       {<<HashKey(key), [Name |-> lastLogFileName, Pos |-> e.LogPos]>>}
                /\ window' = [window EXCEPT ![HashKey(key)] = e.Action]
    /\ rowIdx' = rowIdx + 1
    /\ UNCHANGED <<dbVars, binlogChangesetDelta, binlogPosSynced, binlogPosInMemory,
                   lastLogFileName, disableKeyAboveWatermarkOptimization,
                   flushVars, chunkerVars, counterVars,
                   flushResult, posSyncedAtEntry, capturedEv, explicitlyEnabled>>

updatePosInMemory(pos) == [Name |-> lastLogFileName, Pos |-> pos]

\* The end of OnRow: c.updatePosInMemory(e.Header.LogPos); the subscription
\* moves to the next event.
OnRowPos ==
    /\ binlog # <<>>
    /\ rowIdx = Len(Head(binlog).Rows)
    /\ binlogPosInMemory' = updatePosInMemory(Head(binlog).LogPos)
    /\ binlog' = Tail(binlog)
    /\ rowIdx' = 0
    /\ UNCHANGED <<T, Tp, nWrites, binlogChangeset, binlogChangesetDelta, binlogPosSynced,
                   lastLogFileName, disableKeyAboveWatermarkOptimization,
                   flushVars, chunkerVars, counterVars, histVars>>

SetKeyAboveWatermarkOptimization(newVal) ==
    /\ disableKeyAboveWatermarkOptimization' = ~newVal
    /\ explicitlyEnabled' = (explicitlyEnabled \/ newVal)
    /\ UNCHANGED <<dbVars, binlogChangeset, binlogChangesetDelta, binlogPosSynced,
                   binlogPosInMemory, lastLogFileName, rowIdx,
                   flushVars, chunkerVars, counterVars,
                   flushResult, posSyncedAtEntry, unapplied, capturedEv, window,
                   lastRowOutcome>>

SetOptimization == \E newVal \in BOOLEAN : SetKeyAboveWatermarkOptimization(newVal)

GetDeltaLen == Len0(binlogChangeset) + binlogChangesetDelta

\* ------------------------------------------------------ Client.Flush
\* Under the mutex: capture the map and posInMemory, install a fresh map.
FlushSwap ==
    /\ flushPc = "idle"
    /\ setToFlush' = binlogChangeset
    /\ posOfFlush' = binlogPosInMemory
    /\ binlogChangeset' = EmptyMap
    /\ flushLeft' = DOMAIN binlogChangeset
    /\ flushErr' = FALSE
    /\ flushPc' = "swapped"
    /\ posSyncedAtEntry' = binlogPosSynced
    /\ capturedEv' = {ev \in unapplied : ev[1] \in DOMAIN binlogChangeset}
    /\ window' = [k \in Keys |-> "none"]
    /\ flushResult' = "running"
    /\ UNCHANGED <<dbVars, binlogChangesetDelta, binlogPosSynced, binlogPosInMemory,
                   lastLogFileName, disableKeyAboveWatermarkOptimization, rowIdx,
                   chunkerVars, counterVars,
                   unapplied, explicitlyEnabled, lastRowOutcome>>

\* atomic.StoreInt64(&c.binlogChangesetDelta, int64(len(setToFlush)))
FlushStoreDelta ==
    /\ flushPc = "swapped"
    /\ binlogChangesetDelta' = Len0(setToFlush)
    /\ flushPc' = "loop"
    /\ UNCHANGED <<dbVars, binlogChangeset, binlogPosSynced, binlogPosInMemory,
                   lastLogFileName, disableKeyAboveWatermarkOptimization, rowIdx,
                   setToFlush, posOfFlush, flushLeft, flushErr,
                   chunkerVars, counterVars, histVars>>

\* A partition that puts no key under DELETE.
deleteKeysOfNone(S) == {}

deleteKeysOf(S) == {h \in S : setToFlush[h]}
replaceKeysOf(S) == {h \in S : ~setToFlush[h]}

\* doFlush on the keys S the range loop has collected: the transaction
\* commits (ok) or fails and leaves T' as it was.
doFlush(S, ok) ==
    IF ok
    THEN /\ Tp' = FlushTx(Tp, deleteKeysOf(S), replaceKeysOf(S))
         /\ unapplied' = unapplied \ {ev \in capturedEv : ev[1] \in S}
    ELSE UNCHANGED <<Tp, unapplied>>

\* The deferred function of Flush and its return; the locals of the call
\* are gone.
FlushReturn(err) ==
    /\ binlogChangesetDelta' = 0
    /\ flushPc' = "idle"
    /\ flushResult' = IF err THEN "err" ELSE "ok"
    /\ setToFlush' = EmptyMap
    /\ posOfFlush' = Nil
    /\ flushLeft' = {}
    /\ flushErr' = FALSE
    /\ capturedEv' = {}

\* The range loop up to an i with i % batch = 0: doFlush of a full batch.
\* Go ranges over a map in no fixed order: any FlushBatchSize keys.
FlushBatch ==
    /\ flushPc = "loop"
    /\ Cardinality(flushLeft) >= FlushBatchSize
    /\ \E S \in SUBSET flushLeft, ok \in BOOLEAN :
        /\ Cardinality(S) = FlushBatchSize
        /\ doFlush(S, ok)
        /\ IF ok
           THEN /\ binlogChangesetDelta' = binlogChangesetDelta - FlushBatchSize
                /\ flushLeft' = flushLeft \ S
                /\ UNCHANGED <<flushPc, flushErr, flushResult, setToFlush, posOfFlush,
                               capturedEv>>
           ELSE FlushReturn(TRUE)
    /\ UNCHANGED <<T, binlog, nWrites, binlogChangeset, binlogPosSynced, binlogPosInMemory,
                   lastLogFileName, disableKeyAboveWatermarkOptimization, rowIdx,
                   chunkerVars, counterVars,
                   posSyncedAtEntry, window, explicitlyEnabled, lastRowOutcome>>

\* After the loop: err := c.doFlush(...) on what is left.
FlushLast ==
    /\ flushPc = "loop"
    /\ Cardinality(flushLeft) < FlushBatchSize
    /\ \E ok \in BOOLEAN :
        /\ doFlush(flushLeft, ok)
        /\ flushErr' = ~ok
        /\ flushLeft' = IF ok THEN {} ELSE flushLeft
    /\ flushPc' = "setpos"
    /\ UNCHANGED <<T, binlog, nWrites, clientVars, setToFlush, posOfFlush,
                   chunkerVars, counterVars,
                   flushResult, posSyncedAtEntry, capturedEv, window,
                   explicitlyEnabled, lastRowOutcome>>

SetPos(pos) == pos

\* c.SetPos(posOfFlush); return err
FlushSetPos ==
    /\ flushPc = "setpos"
    /\ binlogPosSynced' = SetPos(posOfFlush)
    /\ FlushReturn(flushErr)
    /\ UNCHANGED <<dbVars, binlogChangeset, binlogPosInMemory,
                   lastLogFileName, disableKeyAboveWatermarkOptimization, rowIdx,
                   chunkerVars, counterVars,
                   posSyncedAtEntry, unapplied, window,
                   explicitlyEnabled, lastRowOutcome>>

\* ------------------------------------------------------- row.Copier
\* chunker.Next, called through Copier.Next4Test: hands out the next chunk.
Next4Test ==
    /\ ~IsRead
    /\ chunkPtr' = chunkPtr + 1
    /\ chunkState' = [chunkState EXCEPT ![chunkPtr + 1] = "copying"]
    /\ UNCHANGED <<dbVars, clientVars, flushVars, chunkerAttached, affected,
                   counterVars, histVars>>

\* A CopyChunk that goes on after a failed transaction.
AfterTxIgnoresErr(ok) == "inserted"

\* if affectedRows, err = dbconn.RetryableTransaction(...); err != nil {
\* return err }
AfterTx(ok) == IF ok THEN "inserted" ELSE "failed"

\* CopyChunk, the bulk insert: INSERT IGNORE INTO T' ... SELECT ... FROM T
\* WHERE <chunk>, which commits or fails.
CopyChunkTx(c, ok) ==
    /\ chunkState[c] = "copying"
    /\ IF ok
       THEN /\ Tp' = [k \in Keys |-> IF k \in ChunkAffected(c) THEN T[k] ELSE Tp[k]]
            /\ affected' = [affected EXCEPT ![c] = Cardinality(ChunkAffected(c))]
       ELSE UNCHANGED <<Tp, affected>>
    /\ chunkState' = [chunkState EXCEPT ![c] = AfterTx(ok)]
    /\ UNCHANGED <<T, binlog, nWrites, clientVars, flushVars, chunkerAttached, chunkPtr,
                   counterVars, histVars>>

\* atomic.AddUint64(&c.CopyRowsCount, uint64(affectedRows))
CopyChunkCount(c) ==
    /\ chunkState[c] = "inserted"
    /\ CopyRowsCount' = CopyRowsCount + affected[c]
    /\ chunkState' = [chunkState EXCEPT ![c] = "counted"]
    /\ UNCHANGED <<dbVars, clientVars, flushVars, chunkerAttached, chunkPtr, affected,
                   CopyRowsLogicalCount, CopyChunksCount, histVars>>

\* The rest of CopyChunk: the logical and chunk counters, chunker.Feedback,
\* return nil.
CopyChunkFeedback(c) ==
    /\ chunkState[c] = "counted"
    /\ CopyRowsLogicalCount' = CopyRowsLogicalCount + ChunkSize
    /\ CopyChunksCount' = CopyChunksCount + 1
    /\ chunkState' = [chunkState EXCEPT ![c] = "copied"]
    /\ UNCHANGED <<dbVars, clientVars, flushVars, chunkerAttached, chunkPtr, affected,
                   CopyRowsCount, histVars>>

CopyChunk ==
    \E c \in ChunkIds :
        \/ \E ok \in BOOLEAN : CopyChunkTx(c, ok)
        \/ CopyChunkCount(c)
        \/ CopyChunkFeedback(c)

\* ------------------------------------------------------ specification
\* NewClient, Client.Run on a fresh migration (the position is read from
\* the server), NewCopier and an empty T'.  T holds one row, of key 1, with
\* a content no later write produces.
InitRows ==
    /\ T \in [Keys -> {0, MaxWrites + 1}]
    /\ T[1] # 0
    /\ \A k \in Keys \ {1} : T[k] = 0
    /\ Tp = [k \in Keys |-> 0]
    /\ chunkPtr = 0
    /\ chunkState = [c \in ChunkIds |-> "none"]
    /\ affected = [c \in ChunkIds |-> 0]

InitCounters ==
    /\ CopyRowsCount = 0
    /\ CopyRowsLogicalCount = 0
    /\ CopyChunksCount = 0

InitTables == InitRows /\ InitCounters

\* Client.Run has returned nil on a fresh migration: the position was read
\* from the server and the canal's goroutine is running.
InitStarted ==
    /\ binlogPosSynced = [Name |-> 1, Pos |-> 0]
    /\ binlogPosInMemory = [Name |-> 1, Pos |-> 0]
    /\ lastLogFileName = 1
    /\ startPc = "returned"
    /\ startErr = "nil"
    /\ consumerSpawned = TRUE
    /\ serverLogs = {1}
    /\ logsReadable = TRUE
    /\ scanIdx = 0
    /\ resumed = FALSE

InitBuffers ==
    /\ binlog = <<>>
    /\ nWrites = 0
    /\ binlogChangeset = EmptyMap
    /\ binlogChangesetDelta = 0
    /\ disableKeyAboveWatermarkOptimization = FALSE
    /\ rowIdx = 0
    /\ flushPc = "idle"
    /\ setToFlush = EmptyMap
    /\ posOfFlush = Nil
    /\ flushLeft = {}
    /\ flushErr = FALSE
    /\ chunkerAttached \in BOOLEAN
    /\ flushResult = "none"
    /\ posSyncedAtEntry = Nil
    /\ unapplied = {}
    /\ capturedEv = {}
    /\ window = [k \in Keys |-> "none"]
    /\ explicitlyEnabled = FALSE
    /\ lastRowOutcome = "none"
    /\ changesetB = EmptyMap
    /\ TpB = [k \in Keys |-> 0]
    /\ setToFlushB = EmptyMap
    /\ flushLeftB = {}
    /\ flushPcB = "idle"
    /\ dbDown = FALSE
    /\ futPc = "idle"
    /\ futErr = FALSE
    /\ targetPos = Nil
    /\ canalPos = [Name |-> 1, Pos |-> 0]
    /\ futCancelled = FALSE
    /\ masterAtEntry = Nil
    /\ stmts = [k \in Keys |-> <<>>]
    /\ batchMax = 0
    /\ mu = "none"
    /\ txOpen = FALSE
    /\ flushPc2 = "idle"
    /\ setToFlush2 = EmptyMap
    /\ posOfFlush2 = Nil
    /\ flushLeft2 = {}
    /\ flushErr2 = FALSE

InitClient == InitStarted /\ InitBuffers

InitTracker == InitTables /\ InitClient

\* NewCopier (open = FALSE) or NewCopierFromCheckpoint (open = TRUE) with
\* config.Concurrency = n; Run has not been called.
InitErrGroup(open, n) ==
    /\ runPc = "start"
    /\ runErr = 0
    /\ mutexHeld = FALSE
    /\ isOpen = open
    /\ concurrency = n
    /\ isInvalid = FALSE
    /\ ctxCancelled = FALSE
    /\ grpCancelled = FALSE
    /\ gErr = 0
    /\ nSleeping = 0
    /\ nNextFailed = 0
    /\ nNextInvalid = 0
    /\ firstReturned = 0
    /\ spawnedAfterInvalid = 0

\* What GetETA returns.
TBD == [kind |-> "TBD", secs |-> 0]
DUE == [kind |-> "DUE", secs |-> 0]
Duration(n) == [kind |-> "duration", secs |-> n]

\* The table descriptor of an auto-increment table of MaxKey rows; the
\* copy has just started and no rate has been estimated.
InitEstimate ==
    /\ keyIsAutoInc = TRUE
    /\ tableMaxValue = MaxKey
    /\ maxValueParses = TRUE
    /\ estimatedRows = MaxKey
    /\ rowsPerSecond = 0
    /\ elapsed = 0
    /\ etaOut = TBD
    /\ etaFresh = FALSE

InitCopier(open, n) == InitErrGroup(open, n) /\ InitEstimate

Init == InitTracker /\ InitCopier(FALSE, 1)

\* The tracker alone, no chunker attached to the table: writes to T, the
\* subscription delivering them, and Flush.
InitFlush == Init /\ ~chunkerAttached

NextFlush ==
    \/ Write /\ UNCHANGED <<equivVars, runVars, apiVars>>
    \/ OnRowRow /\ UNCHANGED <<equivVars, runVars, apiVars>>
    \/ OnRowPos /\ UNCHANGED <<equivVars, runVars, apiVars>>
    \/ FlushSwap /\ UNCHANGED <<equivVars, runVars, apiVars>>
    \/ FlushStoreDelta /\ UNCHANGED <<equivVars, runVars, apiVars>>
    \/ FlushBatch /\ UNCHANGED <<equivVars, runVars, apiVars>>
    \/ FlushLast /\ UNCHANGED <<equivVars, runVars, apiVars>>
    \/ FlushSetPos /\ UNCHANGED <<equivVars, runVars, apiVars>>

SpecFlush == InitFlush /\ [][NextFlush]_vars

\* The tracker's event handler beside a chunker whose high watermark moves
\* and a coordinator that switches the optimization.
NextOnRow ==
    \/ Write /\ UNCHANGED <<equivVars, runVars, apiVars>>
    \/ OnRowRow /\ UNCHANGED <<equivVars, runVars, apiVars>>
    \/ OnRowPos /\ UNCHANGED <<equivVars, runVars, apiVars>>
    \/ SetOptimization /\ UNCHANGED <<equivVars, runVars, apiVars>>
    \/ Next4Test /\ UNCHANGED <<equivVars, runVars, apiVars>>

SpecOnRow == Init /\ [][NextOnRow]_vars

\* The copy and the tracker together: chunks are obtained and copied one
\* call at a time while T is written to, events are delivered and Flush runs.
InitConv == Init /\ chunkerAttached

NextConv ==
    \/ Write /\ UNCHANGED <<equivVars, runVars, apiVars>>
    \/ OnRowRow /\ UNCHANGED <<equivVars, runVars, apiVars>>
    \/ OnRowPos /\ UNCHANGED <<equivVars, runVars, apiVars>>
    \/ FlushSwap /\ UNCHANGED <<equivVars, runVars, apiVars>>
    \/ FlushStoreDelta /\ UNCHANGED <<equivVars, runVars, apiVars>>
    \/ FlushBatch /\ UNCHANGED <<equivVars, runVars, apiVars>>
    \/ FlushLast /\ UNCHANGED <<equivVars, runVars, apiVars>>
    \/ FlushSetPos /\ UNCHANGED <<equivVars, runVars, apiVars>>
    \/ Next4Test /\ UNCHANGED <<equivVars, runVars, apiVars>>
    \/ CopyChunk /\ UNCHANGED <<equivVars, runVars, apiVars>>

SpecConv == InitConv /\ [][NextConv]_vars

\* ------------------------------------- two runs, the optimization on and off
\* Beside the run above, which keeps the optimization as NewClient leaves
\* it, a second run receives the same writes, the same events at the same
\* time, the same chunks copied at the same time and the same outcome of
\* every transaction, after SetKeyAboveWatermarkOptimization(false): its
\* OnRow never skips a row.  The second run keeps what decides its T': the
\* buffer, the captured map and the keys still to flush.
firstRunVars == <<dbVars, clientVars, flushVars, chunkerVars, counterVars, histVars>>

\* OnRow's loop body in both runs.
EquivOnRowRow ==
    /\ OnRowRow
    /\ LET e == Head(binlog)
           key == <<e.Rows[rowIdx + 1]>>
       IN  changesetB' = keyHasChanged(changesetB, key, e.Action = "delete")
    /\ UNCHANGED <<TpB, setToFlushB, flushLeftB, flushPcB, dbDown>>

\* Flush starts in both runs; the database is up or down for this call.
EquivFlushSwap ==
    /\ flushPcB = "idle"
    /\ FlushSwap
    /\ setToFlushB' = changesetB
    /\ changesetB' = EmptyMap
    /\ flushLeftB' = DOMAIN changesetB
    /\ flushPcB' = "loop"
    /\ dbDown' \in BOOLEAN
    /\ UNCHANGED TpB

\* The second run's return from Flush.
EquivReturnB ==
    /\ flushPcB' = "idle"
    /\ setToFlushB' = EmptyMap
    /\ flushLeftB' = {}

\* The second run's doFlush of a full batch inside the range loop.
EquivFlushBatchB ==
    /\ flushPcB = "loop"
    /\ Cardinality(flushLeftB) >= FlushBatchSize
    /\ \E S \in SUBSET flushLeftB :
        /\ Cardinality(S) = FlushBatchSize
        /\ IF dbDown
           THEN /\ EquivReturnB
                /\ UNCHANGED TpB
           ELSE /\ TpB' = FlushTx(TpB, {h \in S : setToFlushB[h]},
                                  {h \in S : ~setToFlushB[h]})
                /\ flushLeftB' = flushLeftB \ S
                /\ UNCHANGED <<flushPcB, setToFlushB>>
    /\ UNCHANGED <<firstRunVars, runVars, apiVars, changesetB, dbDown>>

\* The second run's last doFlush, SetPos and return.
EquivFlushLastB ==
    /\ flushPcB = "loop"
    /\ Cardinality(flushLeftB) < FlushBatchSize
    /\ TpB' = IF dbDown THEN TpB
              ELSE FlushTx(TpB, {h \in flushLeftB : setToFlushB[h]},
                           {h \in flushLeftB : ~setToFlushB[h]})
    /\ EquivReturnB
    /\ UNCHANGED <<firstRunVars, runVars, apiVars, changesetB, dbDown>>

\* The first run's Flush goes on once the second run's has returned, with
\* the same outcome of its transactions.
EquivFlushStoreDelta ==
    /\ flushPcB = "idle"
    /\ FlushStoreDelta
    /\ UNCHANGED equivVars

EquivFlushBatch ==
    /\ FlushBatch
    /\ (flushPc' = "idle") = dbDown
    /\ UNCHANGED equivVars

EquivFlushLast ==
    /\ FlushLast
    /\ flushErr' = dbDown
    /\ UNCHANGED equivVars

\* The bulk insert of a chunk, in both runs.
EquivCopyChunkTx ==
    \E c \in ChunkIds, ok \in BOOLEAN :
        /\ CopyChunkTx(c, ok)
        /\ TpB' = IF ok
                  THEN [k \in Keys |-> IF k \in ChunkKeys(c) /\ T[k] # 0 /\ TpB[k] = 0
                                       THEN T[k] ELSE TpB[k]]
                  ELSE TpB
        /\ UNCHANGED <<changesetB, setToFlushB, flushLeftB, flushPcB, dbDown>>

\* The counters and the feedback of CopyChunk (the first run's).
EquivCopyChunkRest ==
    \E c \in ChunkIds :
        /\ CopyChunkCount(c) \/ CopyChunkFeedback(c)
        /\ UNCHANGED equivVars

NextEquiv ==
    \/ Write /\ UNCHANGED <<equivVars, runVars, apiVars>>
    \/ EquivOnRowRow /\ UNCHANGED <<runVars, apiVars>>
    \/ OnRowPos /\ UNCHANGED <<equivVars, runVars, apiVars>>
    \/ EquivFlushSwap /\ UNCHANGED <<runVars, apiVars>>
    \/ EquivFlushBatchB
    \/ EquivFlushLastB
    \/ EquivFlushStoreDelta /\ UNCHANGED <<runVars, apiVars>>
    \/ EquivFlushBatch /\ UNCHANGED <<runVars, apiVars>>
    \/ EquivFlushLast /\ UNCHANGED <<runVars, apiVars>>
    \/ FlushSetPos /\ UNCHANGED <<equivVars, runVars, apiVars>>
    \/ Next4Test /\ UNCHANGED <<equivVars, runVars, apiVars>>
    \/ EquivCopyChunkTx /\ UNCHANGED <<runVars, apiVars>>
    \/ EquivCopyChunkRest /\ UNCHANGED <<runVars, apiVars>>

SpecEquiv == InitConv /\ [][NextEquiv]_vars

\* ---------------------------------------------------------- Copier.Run
\* Errors are told apart by who returned them: the bulk insert of chunk c
\* is c, chunker.Next is NextErr, chunker.Open is OpenErr; 0 is nil.
NextErr == NumChunks + 1
OpenErr == NumChunks + 2

\* The chunks workers hold: obtained from the chunker, the worker has not
\* returned.
InFlight == {c \in ChunkIds :
                chunkState[c] \in {"copying", "inserted", "counted", "failed", "invalid"}}

\* The goroutines of the errgroup that have not returned.
active == nSleeping + nNextFailed + nNextInvalid + Cardinality(InFlight)

notRunVars == <<dbVars, clientVars, flushVars, chunkerVars, counterVars, histVars,
                equivVars, apiVars>>

\* c.Lock(); c.startTime = time.Now()
RunLock ==
    /\ runPc = "start"
    /\ ~mutexHeld
    /\ mutexHeld' = TRUE
    /\ runPc' = "open"
    /\ UNCHANGED <<notRunVars, runErr, isOpen, concurrency, isInvalid, ctxCancelled,
                   grpCancelled, gErr, nSleeping, nNextFailed, nNextInvalid,
                   firstReturned, spawnedAfterInvalid>>

\* if !c.isOpen { if err := c.chunker.Open(); err != nil { return err } }
\* c.Unlock()
RunOpen ==
    /\ runPc = "open"
    /\ \E ok \in BOOLEAN :
        /\ isOpen => ok
        /\ IF ok
           THEN /\ mutexHeld' = FALSE
                /\ runPc' = "loop"
                /\ UNCHANGED runErr
           ELSE /\ runErr' = OpenErr
                /\ runPc' = "returned"
                /\ UNCHANGED mutexHeld
    /\ UNCHANGED <<notRunVars, isOpen, concurrency, isInvalid, ctxCancelled,
                   grpCancelled, gErr, nSleeping, nNextFailed, nNextInvalid,
                   firstReturned, spawnedAfterInvalid>>

\* ctx.Err() == nil && !c.isInvalid, on the errgroup's context
isHealthy == ~grpCancelled /\ ~isInvalid

\* for !c.chunker.IsRead() && c.isHealthy(errGrpCtx)
RunLoopCheck ==
    /\ runPc = "loop"
    /\ ~mutexHeld
    /\ runPc' = IF ~IsRead /\ isHealthy THEN "go" ELSE "wait"
    /\ UNCHANGED <<notRunVars, runErr, mutexHeld, isOpen, concurrency, isInvalid,
                   ctxCancelled, grpCancelled, gErr, nSleeping, nNextFailed,
                   nNextInvalid, firstReturned, spawnedAfterInvalid>>

\* A group that starts goroutines without a limit.
GoAdmitsAlways == TRUE

\* g.SetLimit(c.concurrency): g.Go blocks until fewer than the limit of
\* the group's goroutines are active.
GoAdmits == active < concurrency

\* g.Go(func() error {...}): the worker starts (and sleeps).
RunGo ==
    /\ runPc = "go"
    /\ GoAdmits
    /\ nSleeping' = nSleeping + 1
    /\ runPc' = "loop"
    /\ spawnedAfterInvalid' = IF isInvalid THEN spawnedAfterInvalid + 1
                              ELSE spawnedAfterInvalid
    /\ UNCHANGED <<notRunVars, runErr, mutexHeld, isOpen, concurrency, isInvalid,
                   ctxCancelled, grpCancelled, gErr, nNextFailed, nNextInvalid,
                   firstReturned>>

runIdle == <<runPc, runErr, mutexHeld, isOpen, concurrency, isInvalid, ctxCancelled,
             grpCancelled, gErr, nNextFailed, nNextInvalid, firstReturned,
             spawnedAfterInvalid>>

\* chunk, err := c.chunker.Next() in a worker: a chunk,
WorkerNextChunk ==
    /\ nSleeping > 0
    /\ Next4Test
    /\ nSleeping' = nSleeping - 1
    /\ UNCHANGED <<equivVars, apiVars, runIdle>>

\* ... or table.ErrTableIsRead, and the worker returns nil,
WorkerNextRead ==
    /\ nSleeping > 0
    /\ IsRead
    /\ nSleeping' = nSleeping - 1
    /\ UNCHANGED <<notRunVars, runIdle>>

\* ... or another error.
WorkerNextFails ==
    /\ nSleeping > 0
    /\ ~IsRead
    /\ nSleeping' = nSleeping - 1
    /\ nNextFailed' = nNextFailed + 1
    /\ UNCHANGED <<notRunVars, runPc, runErr, mutexHeld, isOpen, concurrency, isInvalid,
                   ctxCancelled, grpCancelled, gErr, nNextInvalid, firstReturned,
                   spawnedAfterInvalid>>

\* c.CopyChunk(errGrpCtx, chunk): the transaction fails at once on a
\* cancelled context.  The worker returns nil with the last step of
\* CopyChunk.
WorkerCopyChunk ==
    /\ \E c \in ChunkIds :
        \/ \E ok \in BOOLEAN : (grpCancelled => ~ok) /\ CopyChunkTx(c, ok)
        \/ CopyChunkCount(c)
        \/ CopyChunkFeedback(c)
    /\ UNCHANGED <<equivVars, runVars, apiVars>>

\* c.setInvalid(true) after a failed CopyChunk
WorkerSetInvalid ==
    /\ ~mutexHeld
    /\ \E c \in ChunkIds :
        /\ chunkState[c] = "failed"
        /\ chunkState' = [chunkState EXCEPT ![c] = "invalid"]
    /\ isInvalid' = TRUE
    /\ UNCHANGED <<dbVars, clientVars, flushVars, chunkerAttached, chunkPtr, affected,
                   counterVars, histVars, equivVars, apiVars,
                   runPc, runErr, mutexHeld, isOpen, concurrency, ctxCancelled,
                   grpCancelled, gErr, nSleeping, nNextFailed, nNextInvalid,
                   firstReturned, spawnedAfterInvalid>>

\* errgroup: g.errOnce.Do(func() { g.err = err; g.cancel(g.err) })
errOnce(old, e) == IF old = 0 THEN e ELSE old

\* return err in the worker that copied a chunk
WorkerReturnErr ==
    /\ \E c \in ChunkIds :
        /\ chunkState[c] = "invalid"
        /\ chunkState' = [chunkState EXCEPT ![c] = "errored"]
        /\ gErr' = errOnce(gErr, c)
        /\ firstReturned' = IF firstReturned = 0 THEN c ELSE firstReturned
    /\ grpCancelled' = TRUE
    /\ UNCHANGED <<dbVars, clientVars, flushVars, chunkerAttached, chunkPtr, affected,
                   counterVars, histVars, equivVars, apiVars,
                   runPc, runErr, mutexHeld, isOpen, concurrency, isInvalid, ctxCancelled,
                   nSleeping, nNextFailed, nNextInvalid, spawnedAfterInvalid>>

\* c.setInvalid(true) after a failed Next
WorkerNextSetInvalid ==
    /\ ~mutexHeld
    /\ nNextFailed > 0
    /\ nNextFailed' = nNextFailed - 1
    /\ nNextInvalid' = nNextInvalid + 1
    /\ isInvalid' = TRUE
    /\ UNCHANGED <<notRunVars, runPc, runErr, mutexHeld, isOpen, concurrency,
                   ctxCancelled, grpCancelled, gErr, nSleeping, firstReturned,
                   spawnedAfterInvalid>>

\* return err in the worker whose Next failed
WorkerNextReturnErr ==
    /\ nNextInvalid > 0
    /\ nNextInvalid' = nNextInvalid - 1
    /\ gErr' = errOnce(gErr, NextErr)
    /\ firstReturned' = IF firstReturned = 0 THEN NextErr ELSE firstReturned
    /\ grpCancelled' = TRUE
    /\ UNCHANGED <<notRunVars, runPc, runErr, mutexHeld, isOpen, concurrency, isInvalid,
                   ctxCancelled, nSleeping, nNextFailed, spawnedAfterInvalid>>

\* The caller cancels ctx while Run is in progress; the group's context is
\* derived from it.
Cancel ==
    /\ runPc \notin {"start", "returned"}
    /\ ~ctxCancelled
    /\ ctxCancelled' = TRUE
    /\ grpCancelled' = TRUE
    /\ UNCHANGED <<notRunVars, runPc, runErr, mutexHeld, isOpen, concurrency, isInvalid,
                   gErr, nSleeping, nNextFailed, nNextInvalid, firstReturned,
                   spawnedAfterInvalid>>

\* g.wg.Wait(): every goroutine of the group has returned.
WaitDone == active = 0

\* err := g.Wait(); return err
RunWait ==
    /\ runPc = "wait"
    /\ WaitDone
    /\ runErr' = gErr
    /\ grpCancelled' = TRUE
    /\ runPc' = "returned"
    /\ UNCHANGED <<notRunVars, mutexHeld, isOpen, concurrency, isInvalid, ctxCancelled,
                   gErr, nSleeping, nNextFailed, nNextInvalid, firstReturned,
                   spawnedAfterInvalid>>

InitRun ==
    /\ InitTracker
    /\ chunkerAttached
    /\ \E open \in BOOLEAN, n \in 1..MaxConcurrency : InitCopier(open, n)

NextRun ==
    \/ RunLock
    \/ RunOpen
    \/ RunLoopCheck
    \/ RunGo
    \/ WorkerNextChunk
    \/ WorkerNextRead
    \/ WorkerNextFails
    \/ WorkerCopyChunk
    \/ WorkerSetInvalid
    \/ WorkerReturnErr
    \/ WorkerNextSetInvalid
    \/ WorkerNextReturnErr
    \/ Cancel
    \/ RunWait

SpecRun == InitRun /\ [][NextRun]_vars

\* ------------------------------- Client.FlushUntilTrivial, Client.BlockWait
\* binlogTrivialThreshold, 1000 in the source, scaled to the key space.
binlogTrivialThreshold == 1

\* c.canal.GetMasterPos(): the position after the last event the server
\* wrote.  Positions count the row events of T.
MasterPos == [Name |-> 1, Pos |-> nWrites]

notWaitVars == <<equivVars, runVars, startVars, etaVars, issueVars, lockVars,
                 flush2Vars>>

\* The canal hands the next event to OnRow and, when OnRow has returned,
\* moves its synced position to the event's.
CanalOnRowPos ==
    /\ OnRowPos
    /\ canalPos' = [Name |-> lastLogFileName, Pos |-> Head(binlog).LogPos]
    /\ UNCHANGED <<futPc, futErr, targetPos, futCancelled, masterAtEntry>>

\* FlushUntilTrivial(ctx) is called.
FutCall ==
    /\ futPc \in {"idle", "returned"}
    /\ flushPc = "idle"
    /\ futPc' = "flush"
    /\ futErr' = FALSE
    /\ masterAtEntry' = MasterPos
    /\ UNCHANGED <<dbVars, clientVars, flushVars, chunkerVars, counterVars, histVars,
                   targetPos, canalPos, futCancelled>>

\* FlushUntilTrivial returns; the locals of the call are gone.
FutReturn(err) ==
    /\ futPc' = "returned"
    /\ futErr' = err
    /\ targetPos' = Nil
    /\ masterAtEntry' = Nil
    /\ futCancelled' = FALSE

\* c.Flush(ctx) inside the loop; a transaction on a cancelled ctx fails.
\* An error of Flush is returned.
FutFlush ==
    /\ \/ futPc = "flush" /\ FlushSwap
       \/ futPc = "flushing" /\ FlushStoreDelta
       \/ futPc = "flushing" /\ FlushBatch /\ (futCancelled => flushPc' = "idle")
       \/ futPc = "flushing" /\ FlushLast /\ (futCancelled => flushErr')
       \/ futPc = "flushing" /\ FlushSetPos
    /\ IF flushPc' = "idle" /\ flushResult' = "err"
       THEN FutReturn(TRUE)
       ELSE /\ futPc' = IF flushPc' = "idle" THEN "masterpos" ELSE "flushing"
            /\ UNCHANGED <<futErr, targetPos, masterAtEntry, futCancelled>>
    /\ UNCHANGED canalPos

\* targetPos, err := c.canal.GetMasterPos()
BlockWaitMasterPos ==
    /\ futPc = "masterpos"
    /\ \E ok \in BOOLEAN :
        IF ok
        THEN /\ targetPos' = MasterPos
             /\ futPc' = "noise"
             /\ UNCHANGED <<futErr, masterAtEntry, futCancelled>>
        ELSE FutReturn(TRUE)
    /\ UNCHANGED <<dbVars, clientVars, flushVars, chunkerVars, counterVars, histVars,
                   canalPos>>

\* c.injectBinlogNoise(): a statement on the checkpoint table, which is not
\* T: no row event of T is written.
BlockWaitNoise ==
    /\ futPc = "noise"
    /\ \E ok \in BOOLEAN :
        IF ok
        THEN /\ futPc' = "poll"
             /\ UNCHANGED <<futErr, targetPos, masterAtEntry, futCancelled>>
        ELSE FutReturn(TRUE)
    /\ UNCHANGED <<dbVars, clientVars, flushVars, chunkerVars, counterVars, histVars,
                   canalPos>>

\* A BlockWait that does not compare the positions.
CaughtUpAlways(canal, target) == TRUE

\* A BlockWait that never sees the canal arrive.
CaughtUpNever(canal, target) == FALSE

\* canalPos.Compare(targetPos) >= 0
CaughtUp(canal, target) == PosLE(target, canal)

\* canalPos := c.canal.SyncedPosition(); break, or sleep and go round.
BlockWaitPoll ==
    /\ futPc = "poll"
    /\ futPc' = IF CaughtUp(canalPos, targetPos) THEN "len" ELSE "noise"
    /\ UNCHANGED <<dbVars, clientVars, flushVars, chunkerVars, counterVars, histVars,
                   futErr, targetPos, canalPos, futCancelled, masterAtEntry>>

\* changetSetLen := len(c.binlogChangeset) under the mutex; break and
\* return nil, or go round.
FutCheckLen ==
    /\ futPc = "len"
    /\ IF Len0(binlogChangeset) < binlogTrivialThreshold
       THEN FutReturn(FALSE)
       ELSE /\ futPc' = "flush"
            /\ UNCHANGED <<futErr, targetPos, masterAtEntry, futCancelled>>
    /\ UNCHANGED <<dbVars, clientVars, flushVars, chunkerVars, counterVars, histVars,
                   canalPos>>

\* The caller cancels the ctx it passed to FlushUntilTrivial.
FutCancel ==
    /\ futPc \notin {"idle", "returned"}
    /\ ~futCancelled
    /\ futCancelled' = TRUE
    /\ UNCHANGED <<dbVars, clientVars, flushVars, chunkerVars, counterVars, histVars,
                   futPc, futErr, targetPos, canalPos, masterAtEntry>>

NextTrivial ==
    \/ Write /\ nWrites < MaxWaitWrites /\ UNCHANGED <<notWaitVars, apiVars>>
    \/ OnRowRow /\ UNCHANGED <<notWaitVars, apiVars>>
    \/ CanalOnRowPos /\ UNCHANGED notWaitVars
    \/ FutCall /\ UNCHANGED notWaitVars
    \/ FutFlush /\ UNCHANGED notWaitVars
    \/ BlockWaitMasterPos /\ UNCHANGED notWaitVars
    \/ BlockWaitNoise /\ UNCHANGED notWaitVars
    \/ BlockWaitPoll /\ UNCHANGED notWaitVars
    \/ FutCheckLen /\ UNCHANGED notWaitVars
    \/ FutCancel /\ UNCHANGED notWaitVars

SpecTrivial == InitFlush /\ [][NextTrivial]_vars

\* The canal's goroutine: it goes on delivering the events the server wrote.
Subscription ==
    \/ OnRowRow /\ UNCHANGED <<notWaitVars, apiVars>>
    \/ CanalOnRowPos /\ UNCHANGED notWaitVars

\* The goroutine that called FlushUntilTrivial: it goes on running.
FutRun ==
    /\ \/ FutFlush
       \/ BlockWaitMasterPos
       \/ BlockWaitNoise
       \/ BlockWaitPoll
       \/ FutCheckLen
    /\ UNCHANGED notWaitVars

\* Both goroutines are scheduled again and again.
SpecTrivialLive == SpecTrivial /\ WF_vars(Subscription) /\ WF_vars(FutRun)

\* The caller is scheduled again and again; the canal may have stopped
\* delivering.
SpecTrivialStalled == SpecTrivial /\ WF_vars(FutRun)

\* ------------------------------------------- resume from a checkpoint
\* The content of a row of T' that T no longer holds in that form.
Stale == MaxWrites + 2

\* NewCopierFromCheckpoint(lowWatermark, rowsCopied, rowsCopiedLogical) and
\* the tables an interrupted copy has left: the chunker is opened at the
\* low watermark, chunk w; T' holds every row of T up to the low watermark
\* and, above it, some of the rows, as T holds them or staler.
InitResume ==
    /\ InitClient
    /\ chunkerAttached
    /\ T \in [Keys -> {0, MaxWrites + 1}]
    /\ \E w \in 0..NumChunks :
        /\ chunkPtr = w
        /\ chunkState = [c \in ChunkIds |-> IF c <= w THEN "copied" ELSE "none"]
        /\ Tp \in [Keys -> {0, Stale, MaxWrites + 1}]
        /\ \A k \in Keys :
            /\ T[k] = 0 => Tp[k] = 0
            /\ k <= w * ChunkSize => Tp[k] = T[k]
            /\ Tp[k] = MaxWrites + 1 => T[k] = MaxWrites + 1
        /\ CopyRowsLogicalCount = w * ChunkSize
    /\ CopyRowsCount = Cardinality({k \in Keys : Tp[k] # 0})
    /\ CopyChunksCount = 0
    /\ affected = [c \in ChunkIds |-> 0]
    /\ \E n \in 1..MaxConcurrency : InitCopier(TRUE, n)

SpecResume == InitResume /\ [][NextRun]_vars

\* ----------------------------------------------------------- Client.Run
\* The log files of the server: the files lo..hi, older ones are purged.
LogNames == 1..MaxLogs

\* The rows of SHOW MASTER LOGS, in the order the server lists them.
RECURSIVE SetToSeq(_)
SetToSeq(S) ==
    IF S = {} THEN <<>>
    ELSE LET x == CHOOSE y \in S : \A z \in S : y <= z
         IN  <<x>> \o SetToSeq(S \ {x})

notStartVars == <<dbVars, binlogChangeset, binlogChangesetDelta,
                  disableKeyAboveWatermarkOptimization, rowIdx, flushVars, chunkerVars,
                  counterVars, histVars, equivVars, runVars, waitVars, etaVars,
                  issueVars, lockVars, flush2Vars>>

\* Run returns err before go c.startCanal().
StartReturn(err) ==
    /\ startPc' = "returned"
    /\ startErr' = err

\* c.canal, err = canal.NewCanal(cfg); c.canal.SetEventHandler(c)
StartNewCanal ==
    /\ startPc = "new"
    /\ \E ok \in BOOLEAN :
        IF ok
        THEN /\ startPc' = IF binlogPosSynced = Nil THEN "position" ELSE "logs"
             /\ UNCHANGED startErr
        ELSE StartReturn("canal")
    /\ UNCHANGED <<notStartVars, binlogPosSynced, binlogPosInMemory, lastLogFileName,
                   consumerSpawned, serverLogs, logsReadable, scanIdx, resumed>>

\* c.getCurrentBinlogPosition(): SHOW MASTER STATUS, the newest log file.
getCurrentBinlogPosition ==
    [Name |-> CHOOSE n \in serverLogs : \A m \in serverLogs : m <= n, Pos |-> 0]

\* if c.binlogPosSynced == nil { c.binlogPosSynced, err = ... }
StartReadPosition ==
    /\ startPc = "position"
    /\ \E ok \in BOOLEAN :
        IF ok
        THEN /\ binlogPosSynced' = getCurrentBinlogPosition
             /\ startPc' = "spawn"
             /\ UNCHANGED startErr
        ELSE /\ binlogPosSynced' = Nil
             /\ StartReturn("position")
    /\ UNCHANGED <<notStartVars, binlogPosInMemory, lastLogFileName,
                   consumerSpawned, serverLogs, logsReadable, scanIdx, resumed>>

\* binlogPositionIsImpossible: rows, err := c.db.Query("SHOW MASTER LOGS")
\* and rows.Columns()
StartQueryLogs ==
    /\ startPc = "logs"
    /\ IF logsReadable
       THEN /\ startPc' = "scan"
            /\ UNCHANGED startErr
       ELSE StartReturn("impossible")
    /\ UNCHANGED <<notStartVars, binlogPosSynced, binlogPosInMemory, lastLogFileName,
                   consumerSpawned, serverLogs, logsReadable, scanIdx, resumed>>

\* A check that takes any log file for the one it looks for.
LogNameMatchesAny(logname, pos) == TRUE

\* logname == c.binlogPosSynced.Name
LogNameMatches(logname, pos) == logname = pos.Name

\* for rows.Next() { rows.Scan(...); if logname == ... { return false } }
\* return true
StartScanRow ==
    /\ startPc = "scan"
    /\ IF scanIdx = Cardinality(serverLogs)
       THEN /\ StartReturn("impossible")
            /\ UNCHANGED scanIdx
       ELSE \E ok \in BOOLEAN :
            /\ scanIdx' = scanIdx + 1
            /\ IF ~ok
               THEN StartReturn("impossible")
               ELSE IF LogNameMatches(SetToSeq(serverLogs)[scanIdx + 1], binlogPosSynced)
               THEN /\ startPc' = "spawn"
                    /\ UNCHANGED startErr
               ELSE UNCHANGED <<startPc, startErr>>
    /\ UNCHANGED <<notStartVars, binlogPosSynced, binlogPosInMemory, lastLogFileName,
                   consumerSpawned, serverLogs, logsReadable, resumed>>

\* c.binlogPosInMemory = c.binlogPosSynced; c.lastLogFileName = ...;
\* go c.startCanal(); return nil
StartSpawn ==
    /\ startPc = "spawn"
    /\ binlogPosInMemory' = binlogPosSynced
    /\ lastLogFileName' = binlogPosSynced.Name
    /\ consumerSpawned' = TRUE
    /\ startPc' = "returned"
    /\ UNCHANGED <<notStartVars, binlogPosSynced, startErr, serverLogs, logsReadable,
                   scanIdx, resumed>>

\* NewClient, an optional SetPos with the position of a checkpoint, and a
\* server that holds the log files lo..hi; Run has not been called.
InitStart ==
    /\ InitTables
    /\ InitBuffers
    /\ ~chunkerAttached
    /\ InitCopier(FALSE, 1)
    /\ binlogPosSynced \in {Nil} \cup {SetPos([Name |-> n, Pos |-> 0]) : n \in LogNames}
    /\ binlogPosInMemory = Nil
    /\ lastLogFileName = 0
    /\ startPc = "new"
    /\ startErr = "nil"
    /\ consumerSpawned = FALSE
    /\ \E lo \in LogNames, hi \in LogNames : lo <= hi /\ serverLogs = lo..hi
    /\ logsReadable \in BOOLEAN
    /\ scanIdx = 0
    /\ resumed = (binlogPosSynced # Nil)

NextStart ==
    \/ StartNewCanal
    \/ StartReadPosition
    \/ StartQueryLogs
    \/ StartScanRow
    \/ StartSpawn

SpecStart == InitStart /\ [][NextStart]_vars

\* -------------------------------------------------------- Copier.GetETA
\* copyETAInitialWaitTime, one minute, in units of 30 s.
copyETAInitialWaitTime == 2

\* getCopyStats: the rows copied and the total, by the estimation method of
\* the table.
getCopyStats ==
    IF keyIsAutoInc
    THEN [copied |-> CopyRowsLogicalCount,
          total |-> IF maxValueParses THEN tableMaxValue ELSE estimatedRows]
    ELSE [copied |-> CopyRowsCount, total |-> estimatedRows]

\* A GetETA that is never due.
PctAboveNever(st) == FALSE

\* pct > 99.99 for pct = float64(copied) / float64(total) * 100; a total of
\* 0 gives +Inf (above) for copied > 0 and NaN (not above) for copied = 0.
PctAbove(st) == st.copied * 10000 > 9999 * st.total

GetETA ==
    LET st == getCopyStats
    IN  IF PctAbove(st) THEN DUE
        ELSE IF rowsPerSecond = 0 \/ elapsed < copyETAInitialWaitTime THEN TBD
        ELSE Duration((st.total - st.copied) \div rowsPerSecond)

notEtaVars == <<dbVars, clientVars, flushVars, chunkerVars, counterVars, histVars,
                equivVars, runVars, waitVars, startVars, issueVars, lockVars,
                flush2Vars>>

\* A caller asks for the ETA.
GetETACall ==
    /\ etaOut' = GetETA
    /\ etaFresh' = TRUE
    /\ UNCHANGED <<notEtaVars, keyIsAutoInc, tableMaxValue, maxValueParses, estimatedRows,
                   rowsPerSecond, elapsed>>

\* Time passes.
EtaTick ==
    /\ elapsed < MaxElapsed
    /\ elapsed' = elapsed + 1
    /\ etaFresh' = FALSE
    /\ UNCHANGED <<notEtaVars, keyIsAutoInc, tableMaxValue, maxValueParses, estimatedRows,
                   rowsPerSecond, etaOut>>

\* estimateRowsPerSecondLoop stores a new rate.
EtaEstimate ==
    /\ \E r \in 0..MaxKey :
        /\ r # rowsPerSecond
        /\ rowsPerSecond' = r
    /\ etaFresh' = FALSE
    /\ UNCHANGED <<notEtaVars, keyIsAutoInc, tableMaxValue, maxValueParses, estimatedRows,
                   elapsed, etaOut>>

\* A copier at any progress over a table of any descriptor.
InitEta ==
    /\ InitRows
    /\ InitClient
    /\ ~chunkerAttached
    /\ InitErrGroup(FALSE, 1)
    /\ CopyRowsCount \in 0..MaxKey
    /\ CopyRowsLogicalCount \in CopyRowsCount..MaxKey
    /\ CopyChunksCount = CopyRowsLogicalCount
    /\ keyIsAutoInc \in BOOLEAN
    /\ tableMaxValue \in 0..MaxKey
    /\ maxValueParses \in BOOLEAN
    /\ estimatedRows \in 0..MaxKey
    /\ rowsPerSecond = 0
    /\ elapsed = 0
    /\ etaOut = TBD
    /\ etaFresh = FALSE

NextEta ==
    \/ GetETACall
    \/ EtaTick
    \/ EtaEstimate

SpecEta == InitEta /\ [][NextEta]_vars

\* ------------------------------------------- the statements of Flush
notIssueVars == <<equivVars, runVars, waitVars, startVars, etaVars, lockVars,
                  flush2Vars>>

\* doFlush on the keys S: the DELETE names deleteKeys, the REPLACE names
\* replaceKeys, one transaction carries both.
Issue(S) ==
    /\ stmts' = [k \in Keys |->
                    stmts[k]
                    \o (IF k \in deleteKeysOf(S) THEN <<"DELETE">> ELSE <<>>)
                    \o (IF k \in replaceKeysOf(S) THEN <<"REPLACE">> ELSE <<>>)]
    /\ LET n == Cardinality(deleteKeysOf(S)) + Cardinality(replaceKeysOf(S))
       IN  batchMax' = IF n > batchMax THEN n ELSE batchMax

\* Flush begins: nothing issued yet.
IssueFlushSwap ==
    /\ FlushSwap
    /\ stmts' = [k \in Keys |-> <<>>]
    /\ batchMax' = 0
    /\ UNCHANGED notIssueVars

\* A full batch; the transaction that committed named the keys that left
\* flushLeft.
IssueFlushBatch ==
    /\ FlushBatch
    /\ IF flushPc' = "loop"
       THEN Issue(flushLeft \ flushLeft')
       ELSE UNCHANGED issueVars
    /\ UNCHANGED notIssueVars

\* The last doFlush.
IssueFlushLast ==
    /\ FlushLast
    /\ IF flushErr' THEN UNCHANGED issueVars ELSE Issue(flushLeft)
    /\ UNCHANGED notIssueVars

NextIssue ==
    \/ Write /\ UNCHANGED <<equivVars, runVars, apiVars>>
    \/ OnRowRow /\ UNCHANGED <<equivVars, runVars, apiVars>>
    \/ OnRowPos /\ UNCHANGED <<equivVars, runVars, apiVars>>
    \/ IssueFlushSwap
    \/ FlushStoreDelta /\ UNCHANGED <<equivVars, runVars, apiVars>>
    \/ IssueFlushBatch
    \/ IssueFlushLast
    \/ FlushSetPos /\ UNCHANGED <<equivVars, runVars, apiVars>>

SpecIssue == InitFlush /\ [][NextIssue]_vars

\* ------------------------------------------------ the Client's mutex
notLockVars == <<equivVars, runVars, waitVars, startVars, etaVars, issueVars,
                 flush2Vars>>

\* keyHasChanged: c.Lock(); defer c.Unlock(); the map entry is set.
LockOnRowRow ==
    /\ mu = "none"
    /\ OnRowRow
    /\ UNCHANGED <<notLockVars, lockVars>>

\* updatePosInMemory: c.Lock(); defer c.Unlock()
LockOnRowPos ==
    /\ mu = "none"
    /\ OnRowPos
    /\ UNCHANGED <<notLockVars, lockVars>>

\* Flush: c.Lock()
LockFlushLock ==
    /\ flushPc = "idle"
    /\ mu = "none"
    /\ mu' = "flush"
    /\ UNCHANGED <<dbVars, clientVars, flushVars, chunkerVars, counterVars, histVars,
                   notLockVars, txOpen>>

\* A Flush that keeps the mutex for its transactions.
MutexAfterSwapHeld == "flush"

\* c.Unlock() right after the swap
MutexAfterSwap == "none"

\* The swap, and the unlock.
LockFlushSwap ==
    /\ mu = "flush"
    /\ FlushSwap
    /\ mu' = MutexAfterSwap
    /\ UNCHANGED <<notLockVars, txOpen>>

\* doFlush: dbconn.RetryableTransaction begins,
LockTxBegin ==
    /\ flushPc = "loop"
    /\ ~txOpen
    /\ txOpen' = TRUE
    /\ UNCHANGED <<dbVars, clientVars, flushVars, chunkerVars, counterVars, histVars,
                   notLockVars, mu>>

\* ... and commits or fails: a full batch, or the last doFlush.
LockTxEnd ==
    /\ txOpen
    /\ FlushBatch \/ FlushLast
    /\ txOpen' = FALSE
    /\ UNCHANGED <<notLockVars, mu>>

\* c.SetPos(posOfFlush): c.Lock(); defer c.Unlock()
LockFlushSetPos ==
    /\ mu = "none"
    /\ FlushSetPos
    /\ UNCHANGED <<notLockVars, lockVars>>

NextLock ==
    \/ Write /\ UNCHANGED <<equivVars, runVars, apiVars>>
    \/ LockOnRowRow
    \/ LockOnRowPos
    \/ LockFlushLock
    \/ LockFlushSwap
    \/ FlushStoreDelta /\ UNCHANGED <<equivVars, runVars, apiVars>>
    \/ LockTxBegin
    \/ LockTxEnd
    \/ LockFlushSetPos

SpecLock == InitFlush /\ [][NextLock]_vars

\* ------------------------------------------- two calls of Flush at once
\* Nothing in Flush keeps a second goroutine from calling it while a call
\* is running: the second call runs the same code on its own locals.  The
\* history variables follow the first call.
notFlush2Vars == <<equivVars, runVars, waitVars, startVars, etaVars, issueVars, lockVars>>

\* The second call: the swap under the mutex,
Flush2Swap ==
    /\ flushPc2 = "idle"
    /\ setToFlush2' = binlogChangeset
    /\ posOfFlush2' = binlogPosInMemory
    /\ binlogChangeset' = EmptyMap
    /\ flushLeft2' = DOMAIN binlogChangeset
    /\ flushErr2' = FALSE
    /\ flushPc2' = "swapped"
    /\ UNCHANGED <<dbVars, binlogChangesetDelta, binlogPosSynced, binlogPosInMemory,
                   lastLogFileName, disableKeyAboveWatermarkOptimization, rowIdx,
                   flushVars, chunkerVars, counterVars, histVars, notFlush2Vars>>

\* ... the store of delta,
Flush2StoreDelta ==
    /\ flushPc2 = "swapped"
    /\ binlogChangesetDelta' = Len0(setToFlush2)
    /\ flushPc2' = "loop"
    /\ UNCHANGED <<dbVars, binlogChangeset, binlogPosSynced, binlogPosInMemory,
                   lastLogFileName, disableKeyAboveWatermarkOptimization, rowIdx,
                   flushVars, chunkerVars, counterVars, histVars, notFlush2Vars,
                   setToFlush2, posOfFlush2, flushLeft2, flushErr2>>

\* ... doFlush on the keys S,
doFlush2(S, ok) ==
    IF ok
    THEN Tp' = FlushTx(Tp, {h \in S : setToFlush2[h]}, {h \in S : ~setToFlush2[h]})
    ELSE UNCHANGED Tp

\* ... the deferred function and the return,
Flush2Return ==
    /\ binlogChangesetDelta' = 0
    /\ flushPc2' = "idle"
    /\ setToFlush2' = EmptyMap
    /\ posOfFlush2' = Nil
    /\ flushLeft2' = {}
    /\ flushErr2' = FALSE

\* ... a full batch,
Flush2Batch ==
    /\ flushPc2 = "loop"
    /\ Cardinality(flushLeft2) >= FlushBatchSize
    /\ \E S \in SUBSET flushLeft2, ok \in BOOLEAN :
        /\ Cardinality(S) = FlushBatchSize
        /\ doFlush2(S, ok)
        /\ IF ok
           THEN /\ binlogChangesetDelta' = binlogChangesetDelta - FlushBatchSize
                /\ flushLeft2' = flushLeft2 \ S
                /\ UNCHANGED <<flushPc2, flushErr2, setToFlush2, posOfFlush2>>
           ELSE Flush2Return
    /\ UNCHANGED <<T, binlog, nWrites, binlogChangeset, binlogPosSynced, binlogPosInMemory,
                   lastLogFileName, disableKeyAboveWatermarkOptimization, rowIdx,
                   flushVars, chunkerVars, counterVars, histVars, notFlush2Vars>>

\* ... the last doFlush,
Flush2Last ==
    /\ flushPc2 = "loop"
    /\ Cardinality(flushLeft2) < FlushBatchSize
    /\ \E ok \in BOOLEAN :
        /\ doFlush2(flushLeft2, ok)
        /\ flushErr2' = ~ok
        /\ flushLeft2' = IF ok THEN {} ELSE flushLeft2
    /\ flushPc2' = "setpos"
    /\ UNCHANGED <<T, binlog, nWrites, clientVars, flushVars, chunkerVars, counterVars,
                   histVars, notFlush2Vars, setToFlush2, posOfFlush2>>

\* ... c.SetPos(posOfFlush); return err
Flush2SetPos ==
    /\ flushPc2 = "setpos"
    /\ binlogPosSynced' = SetPos(posOfFlush2)
    /\ Flush2Return
    /\ UNCHANGED <<dbVars, binlogChangeset, binlogPosInMemory,
                   lastLogFileName, disableKeyAboveWatermarkOptimization, rowIdx,
                   flushVars, chunkerVars, counterVars, histVars, notFlush2Vars>>

\* OnRotate: c.lastLogFileName = string(rotateEvent.NextLogName), between
\* two row events of the stream.
OnRotate ==
    /\ rowIdx = 0
    /\ lastLogFileName < MaxLogs
    /\ lastLogFileName' = lastLogFileName + 1
    /\ UNCHANGED <<dbVars, binlogChangeset, binlogChangesetDelta, binlogPosSynced,
                   binlogPosInMemory, disableKeyAboveWatermarkOptimization, rowIdx,
                   flushVars, chunkerVars, counterVars, histVars>>

NextOverlap ==
    \/ Write /\ UNCHANGED <<equivVars, runVars, apiVars>>
    \/ OnRowRow /\ UNCHANGED <<equivVars, runVars, apiVars>>
    \/ OnRowPos /\ UNCHANGED <<equivVars, runVars, apiVars>>
    \/ OnRotate /\ UNCHANGED <<equivVars, runVars, apiVars>>
    \/ FlushSwap /\ UNCHANGED <<equivVars, runVars, apiVars>>
    \/ FlushStoreDelta /\ UNCHANGED <<equivVars, runVars, apiVars>>
    \/ FlushBatch /\ UNCHANGED <<equivVars, runVars, apiVars>>
    \/ FlushLast /\ UNCHANGED <<equivVars, runVars, apiVars>>
    \/ FlushSetPos /\ UNCHANGED <<equivVars, runVars, apiVars>>
    \/ Flush2Swap
    \/ Flush2StoreDelta
    \/ Flush2Batch
    \/ Flush2Last
    \/ Flush2SetPos

SpecOverlap == InitFlush /\ [][NextOverlap]_vars

\* One call of Flush at a time, with rotate events.
NextRotate ==
    \/ Write /\ UNCHANGED <<equivVars, runVars, apiVars>>
    \/ OnRowRow /\ UNCHANGED <<equivVars, runVars, apiVars>>
    \/ OnRowPos /\ UNCHANGED <<equivVars, runVars, apiVars>>
    \/ OnRotate /\ UNCHANGED <<equivVars, runVars, apiVars>>
    \/ FlushSwap /\ UNCHANGED <<equivVars, runVars, apiVars>>
    \/ FlushStoreDelta /\ UNCHANGED <<equivVars, runVars, apiVars>>
    \/ FlushBatch /\ UNCHANGED <<equivVars, runVars, apiVars>>
    \/ FlushLast /\ UNCHANGED <<equivVars, runVars, apiVars>>
    \/ FlushSetPos /\ UNCHANGED <<equivVars, runVars, apiVars>>

SpecRotate == InitFlush /\ [][NextRotate]_vars

\* ------------------------------------------------------------ claims

\* Every chunk the chunker holds has been handed out, copied into T' and
\* fed back.
CopyDone == IsRead /\ \A c \in ChunkIds : chunkState[c] = "copied"

\* C1: once the copier has copied every chunk and every write to T has been
\* delivered, after a Flush that completes with nothing left in the
\* changeset buffer T' holds exactly the rows of T, with the same content.
C1_Converged ==
    (/\ CopyDone
     /\ binlog = <<>>
     /\ Len0(binlogChangeset) = 0
     /\ flushPc = "idle"
     /\ flushResult = "ok") => Tp = T

\* C2: when a delete/replace batch of a Flush call fails, intermediate or
\* last, Flush returns the error and posSynced keeps the value it had
\* before the call.
C2_FailedFlushKeepsPosSynced ==
    flushResult = "err" => binlogPosSynced = posSyncedAtEntry

\* C3: posSynced is a crash-safe checkpoint: no row event at or before
\* posSynced whose key was put into the changeset buffer is still waiting
\* for a committed flush batch to apply its key to T'.
C3_SyncedPosIsCheckpoint ==
    \A ev \in unapplied : ~PosLE(ev[2], binlogPosSynced)

\* Both runs have copied every chunk, received every event and completed a
\* Flush that left nothing in either buffer.
EquivDone ==
    /\ CopyDone
    /\ binlog = <<>>
    /\ Len0(binlogChangeset) = 0 /\ Len0(changesetB) = 0
    /\ flushPc = "idle" /\ flushPcB = "idle"
    /\ flushResult = "ok"

\* C4: for the same writes to T and the same chunk schedule, the final T'
\* is the same whether the optimization is enabled or disabled.
C4_SameFinalTable == EquivDone => Tp = TpB

\* C5: the optimization is disabled by default: until the coordinator
\* calls SetKeyAboveWatermarkOptimization(true), no row is discarded.
C5_DisabledByDefault ==
    ~explicitlyEnabled => lastRowOutcome # "discarded"

\* C6: a row of a row event is discarded exactly when a chunker is
\* attached, the optimization is enabled and the key is strictly above the
\* high watermark, and then the buffer is left as it was; otherwise the
\* key is put into the buffer with tombstone = (action is delete).
C6_Step ==
    rowIdx' = rowIdx + 1 =>
        LET e == Head(binlog)
            k == e.Rows[rowIdx + 1]
        IN  IF chunkerAttached /\ ~disableKeyAboveWatermarkOptimization /\ k > highWatermark
            THEN /\ binlogChangeset' = binlogChangeset
                 /\ Len0(binlogChangeset') = Len0(binlogChangeset)
            ELSE /\ DOMAIN binlogChangeset' = DOMAIN binlogChangeset \cup {k}
                 /\ binlogChangeset'[k] = (e.Action = "delete")
                 /\ \A h \in DOMAIN binlogChangeset \ {k} :
                        binlogChangeset'[h] = binlogChangeset[h]

C6_DiscardExactlyAboveWatermark == [][C6_Step]_vars

\* A row above the high watermark was just discarded.
C6_Witness ==
    /\ lastRowOutcome = "discarded"
    /\ binlog # <<>>
    /\ rowIdx >= 1
    /\ chunkPtr >= 1
    /\ Head(binlog).Rows[rowIdx] > highWatermark
    /\ Head(binlog).Rows[rowIdx] \notin DOMAIN binlogChangeset

\* C7: the buffer holds at most one entry per key, whose tombstone flag is
\* that of the last event buffered for the key in the window; the flush of
\* a tombstoned key deletes the key from T'.
C7_Inv ==
    /\ DOMAIN binlogChangeset = {k \in Keys : window[k] # "none"}
    /\ \A k \in DOMAIN binlogChangeset : binlogChangeset[k] = (window[k] = "delete")

C7_Step ==
    (flushPc = "loop" /\ ~flushErr' /\ flushPc' # "idle") =>
        \A h \in flushLeft \ flushLeft' : setToFlush[h] => Tp'[h] = 0

C7_LastEventWins == []C7_Inv /\ [][C7_Step]_vars

\* Two events for key 1 were coalesced into one tombstone entry: both
\* writes are delivered, no Flush has swapped the buffer yet.
C7_Witness ==
    /\ nWrites = 2
    /\ binlog = <<>>
    /\ flushResult = "none"
    /\ DOMAIN binlogChangeset = {1}
    /\ binlogChangeset[1]

\* C8: whenever Run returns without an error, the chunker is fully read and
\* every chunk it produced has been copied into T' and fed back, also when
\* the context was cancelled while Run was in progress.
C8_NilMeansAllCopied ==
    (runPc = "returned" /\ runErr = 0) => CopyDone

\* C9: when a chunk copy fails the copier is marked invalid, the
\* driver starts no worker once it is, Run returns only after every worker
\* has returned, and Run returns the error of the first worker that failed.
C9_NoFurtherWork ==
    /\ (\E c \in ChunkIds : chunkState[c] = "errored") => isInvalid
    /\ spawnedAfterInvalid = 0
    /\ (runPc = "returned" /\ runErr # OpenErr) => active = 0
    /\ (runPc = "returned" /\ firstReturned # 0) => runErr = firstReturned

\* C10: in every state of Run the number of chunks in flight is at most
\* the configured concurrency.
C10_InFlightBounded == Cardinality(InFlight) <= concurrency

\* As many chunks as the largest limit allows are being copied at once.
C10_Witness ==
    /\ Cardinality(InFlight) = concurrency
    /\ concurrency = MaxConcurrency
    /\ \A c \in InFlight : chunkState[c] = "copying"

\* C11: in every state, also between the counter updates of CopyChunk,
\* CopyRowsLogicalCount >= CopyRowsCount.
C11_LogicalAtLeastRows == CopyRowsLogicalCount >= CopyRowsCount

\* C12: when FlushUntilTrivial returns nil, the buffer holds fewer than
\* binlogTrivialThreshold entries at its last check and the canal's synced
\* position is at or after the master position at the time of the call.
C12_Step ==
    (futPc # "returned" /\ futPc' = "returned" /\ ~futErr') =>
        /\ futPc = "len"
        /\ Len0(binlogChangeset) < binlogTrivialThreshold
        /\ PosLE(masterAtEntry, canalPos)
        /\ UNCHANGED <<binlogChangeset, canalPos>>

C12_TrivialAndCaughtUp == [][C12_Step]_vars

\* FlushUntilTrivial has returned nil after a write was made and its event
\* buffered and flushed; the canal is at the master position.
C12_Witness ==
    /\ futPc = "returned" /\ ~futErr
    /\ nWrites = MaxWaitWrites
    /\ canalPos = MasterPos
    /\ Len0(binlogChangeset) = 0
    /\ flushResult = "ok"
    /\ Tp = T

\* C13: writes to T stop and the canal keeps delivering: every call of
\* FlushUntilTrivial returns, and when it returns nil the buffer holds fewer
\* than binlogTrivialThreshold entries.
C13_EventuallyTrivial ==
    (futPc \notin {"idle", "returned"}) ~>
        (futPc = "returned" /\ (futErr \/ Len0(binlogChangeset) < binlogTrivialThreshold))

\* A call has returned nil with every write delivered, flushed into T' and
\* the synced position at the master position.
C13_Witness ==
    /\ futPc = "returned" /\ ~futErr
    /\ nWrites = MaxWaitWrites
    /\ binlog = <<>>
    /\ Len0(binlogChangeset) = 0
    /\ binlogPosSynced = MasterPos

\* C14: once the ctx is cancelled, a BlockWait that is polling returns, and
\* with it the FlushUntilTrivial that called it, even when the canal never
\* reaches the target position.
C14_CancelUnblocks ==
    (futCancelled /\ futPc \in {"noise", "poll"}) ~> (futPc = "returned")

\* C15: at every moment while a Flush is running, the pending count an
\* observer reads (GetDeltaLen: map size + delta) is at least the number of
\* captured entries not yet applied to T'.
C15_PendingNotCollapsed ==
    flushPc # "idle" => GetDeltaLen >= Cardinality(flushLeft)

\* C16: a chunk copy executed again leaves the rows T' holds already as
\* they are, and a copy resumed at a low watermark at or below the real
\* progress ends, when T' held no stale row, with T' equal to T.
C16_KeepsRows == \A k \in Keys : Tp[k] # 0 => Tp'[k] = Tp[k]

C16_ResumeConverges ==
    /\ [][C16_KeepsRows]_vars
    /\ []((CopyDone /\ \A k \in Keys : Tp[k] # Stale) => Tp = T)

\* Every chunk has been executed again in this run: chunk 1 found its row
\* in T' (no row affected), chunk 2 inserted its row, and T' equals T.
C16_Witness ==
    /\ CopyDone
    /\ CopyChunksCount = NumChunks
    /\ T[1] # 0 /\ affected[1] = 0
    /\ affected[2] = 1
    /\ Tp = T

\* C17: Run, given a prior synced position whose log file the server does
\* not list, or with the list unreadable, returns the error of an impossible
\* position (once the canal object could be made) without having started
\* the consumer; the consumer is started only after the position was found
\* in the list or freshly read from the server.
C17_ValidatedBeforeSpawn ==
    /\ (/\ startPc = "returned"
        /\ resumed
        /\ startErr # "canal"
        /\ ~logsReadable \/ binlogPosSynced.Name \notin serverLogs)
           => (startErr = "impossible" /\ ~consumerSpawned)
    /\ consumerSpawned =>
        /\ startPc = "returned" /\ startErr = "nil"
        /\ binlogPosSynced # Nil
        /\ binlogPosSynced.Name \in serverLogs
        /\ resumed => logsReadable

\* Run has read the whole list of two or more log files without finding
\* the file of the prior position, and has returned the error.
C17_Witness ==
    /\ startPc = "returned"
    /\ resumed
    /\ startErr = "impossible"
    /\ ~consumerSpawned
    /\ logsReadable
    /\ binlogPosSynced.Name \notin serverLogs
    /\ scanIdx = Cardinality(serverLogs)
    /\ scanIdx >= 2

\* pct >= 99.99; the NaN of 0 / 0 is not.
PctAtLeast(st) ==
    /\ st.copied + st.total > 0
    /\ st.copied * 10000 >= 9999 * st.total

\* C18: GetETA returns "TBD" for every call in the warm-up window, "DUE"
\* when the percentage is at least 99.99, and otherwise the duration
\* floor((total - copied) / rowsPerSecond) seconds.
C18_TbdDueDuration ==
    etaFresh =>
        LET st == getCopyStats
        IN  /\ elapsed < copyETAInitialWaitTime => etaOut = TBD
            /\ PctAtLeast(st) => etaOut = DUE
            /\ (elapsed >= copyETAInitialWaitTime /\ ~PctAtLeast(st)) =>
                   /\ etaOut.kind = "duration"
                   /\ rowsPerSecond > 0 =>
                          etaOut.secs = (st.total - st.copied) \div rowsPerSecond

\* C18, amended: GetETA returns "DUE" when the percentage is above 99.99,
\* also in the warm-up window; otherwise "TBD" in the warm-up window or
\* while rowsPerSecond is 0; otherwise the duration
\* floor((total - copied) / rowsPerSecond) seconds.
C18_DueThenTbdThenDuration ==
    etaFresh =>
        LET st == getCopyStats
            due == st.copied * 10000 > 9999 * st.total
        IN  /\ due => etaOut = DUE
            /\ (~due /\ (elapsed < copyETAInitialWaitTime \/ rowsPerSecond = 0)) =>
                   etaOut = TBD
            /\ (~due /\ elapsed >= copyETAInitialWaitTime /\ rowsPerSecond > 0) =>
                   etaOut = Duration((st.total - st.copied) \div rowsPerSecond)

\* GetETA has answered "DUE" in the warm-up window, every row copied.
C18_Witness ==
    /\ etaFresh
    /\ elapsed < copyETAInitialWaitTime
    /\ getCopyStats.total > 0
    /\ getCopyStats.copied = getCopyStats.total
    /\ etaOut = DUE

\* A worker takes a chunk from the chunker, or its bulk insert runs.
BeginsWork ==
    \/ chunkPtr' # chunkPtr
    \/ \E c \in ChunkIds : chunkState[c] = "copying" /\ chunkState'[c] = "inserted"

C19_Step == BeginsWork => isHealthy

\* C19: once the copier is invalid or the context is cancelled, no worker
\* asks the chunker for a chunk and no worker runs a bulk insert.
C19_UnhealthyStopsWorkers == [][C19_Step]_vars

\* The workers of the group that have been started and hold no chunk: they
\* have yet to call the chunker's Next, or their call failed.
WithoutChunk == nSleeping + nNextFailed + nNextInvalid

\* C20: the chunker's Next is called by the driver loop only, each chunk
\* is obtained before its worker is started: no worker of the group is
\* without a chunk, and so no two workers are about to call Next at once.
C20_NextOnlyInDriver == WithoutChunk = 0

\* Flush returns, every batch having succeeded.
C21_Step ==
    (flushPc = "setpos" /\ ~flushErr /\ flushPc' = "idle") =>
        /\ \A k \in Keys :
               stmts[k] = IF k \notin DOMAIN setToFlush THEN <<>>
                          ELSE IF setToFlush[k] THEN <<"DELETE">>
                          ELSE <<"REPLACE">>
        /\ batchMax <= FlushBatchSize
        /\ binlogChangesetDelta' = 0
        /\ binlogPosSynced' = posOfFlush

\* C21: in a Flush in which every batch succeeds, each captured key is in
\* exactly one issued statement, a DELETE when its flag is tombstone and a
\* REPLACE otherwise, no transaction carries more than the batch size of
\* keys, and on return delta is 0 and posSynced is the posInMemory captured
\* at the swap.
C21_OneStatementPerKey == [][C21_Step]_vars

\* A Flush of a tombstone and a replacement is about to return, every
\* batch having succeeded, one of them full.
C21_Witness ==
    /\ flushPc = "setpos"
    /\ ~flushErr
    /\ \E k \in DOMAIN setToFlush : setToFlush[k]
    /\ \E k \in DOMAIN setToFlush : ~setToFlush[k]
    /\ batchMax = FlushBatchSize

\* A row of the event at the head of the stream is waiting for OnRow.
RowPending == binlog # <<>> /\ rowIdx < Len(Head(binlog).Rows)

C22_Inv ==
    txOpen =>
        /\ mu # "flush"
        /\ RowPending => ENABLED LockOnRowRow

C22_Step ==
    (txOpen /\ rowIdx' = rowIdx + 1) =>
        /\ setToFlush' = setToFlush
        /\ flushLeft' = flushLeft
        /\ HashKey(<<Head(binlog).Rows[rowIdx + 1]>>) \in DOMAIN binlogChangeset'

FailedChunks == {c \in ChunkIds : chunkState[c] \in {"failed", "invalid", "errored"}}

\* The chunks that have added to CopyRowsCount, and those that have added
\* to the other counters and sent their feedback.
CountedChunks == {c \in ChunkIds : chunkState[c] \in {"counted", "copied"}}
FedBackChunks == {c \in ChunkIds : chunkState[c] = "copied"}

RECURSIVE SumAffected(_)
SumAffected(S) ==
    IF S = {} THEN 0
    ELSE LET c == CHOOSE x \in S : TRUE
         IN  affected[c] + SumAffected(S \ {c})

\* C23: a chunk copy whose bulk insert fails adds nothing to
\* CopyRowsCount, CopyRowsLogicalCount and CopyChunksCount and sends no
\* feedback, so every row of T up to the low watermark is in T'.
C23_FailedChunkLeavesNoTrace ==
    /\ CopyRowsCount = SumAffected(CountedChunks)
    /\ CopyRowsLogicalCount = ChunkSize * Cardinality(FedBackChunks)
    /\ CopyChunksCount = Cardinality(FedBackChunks)
    /\ \A c \in FailedChunks : \A k \in ChunkKeys(c) : k > lowWatermark
    /\ \A k \in Keys : k <= lowWatermark => Tp[k] = T[k]

\* The bulk insert of the chunk that holds a row has failed while the
\* other chunk was copied and fed back.
C23_Witness ==
    /\ FailedChunks # {}
    /\ FedBackChunks # {}
    /\ \E c \in FailedChunks : \E k \in ChunkKeys(c) : T[k] # 0

\* C24: the Copier's mutex is not held when Run has returned, on every
\* return path, the one where opening the chunker fails included: a later
\* c.Lock() of GetProgress, GetETA, StartTime, SetThrottler or isHealthy
\* is not blocked forever.
C24_ReturnsUnlocked == runPc = "returned" => ~mutexHeld

C25_Step == PosLE(binlogPosSynced, binlogPosSynced')

\* C25: posSynced never moves backwards, under any interleaving of row
\* events, rotate events and calls of Flush, overlapping calls included.
C25_PosSyncedMonotone == [][C25_Step]_vars

====
